---- MODULE Spec2Model ----
(***************************************************************************)
(* Model of the Phaidra audit scripts (2_5_Assignement_v01 .. v06 and the  *)
(* HitchhikersGuide variant): the paginated harvest                        *)
(* fetch_all_phaidra_data and the analysis functions analyze_data /        *)
(* analyze_and_export.                                                     *)
(***************************************************************************)
EXTENDS Integers, Sequences, FiniteSets, TLC

\* ------------------------------------------------------------------ bounds
\* Largest total the search endpoint reports in the probe.
MaxTotal == 250
\* Longest cached record list the analysis functions are run on.
MaxDocs == 3
\* Largest total the probe reports in a run of a whole script.
MaxPipelineTotal == 2
\* Longest cached record list the analysis functions are run on twice.
MaxPairDocs == 3

\* ------------------------------------------------- the script variants
Versions == {"v01", "v02", "v04", "v05", "v06", "HitchhikersGuide"}

\* `if total_found == 0: return False` exists from v04 on.
HasEmptyCheck(v) == v \in {"v04", "v05", "v06", "HitchhikersGuide"}

\* `response.raise_for_status()` was dropped in v06 and HitchhikersGuide.
RaisesForStatus(v) == v \in {"v01", "v02", "v04", "v05"}

\* rows_per_page = 100 (the literal 100 in v06 and HitchhikersGuide).
rows_per_page == 100

\* ------------------------------------------------------------- helpers
Min(a, b) == IF a < b THEN a ELSE b
Max(a, b) == IF a > b THEN a ELSE b
CeilDiv(a, b) == (a + b - 1) \div b

\* ------------------------------------------------------ Python values
\* A JSON value as Python holds it.  t is its type: "absent" (the key is
\* not in the record), "none" (null), "str", "int", "list", "dict".  A
\* str is the sequence of its characters, so that lower() and `in` are
\* computed on it.
Absent == [t |-> "absent", s |-> <<>>, n |-> 0, items |-> <<>>]
None == [t |-> "none", s |-> <<>>, n |-> 0, items |-> <<>>]
Str(chars) == [t |-> "str", s |-> chars, n |-> 0, items |-> <<>>]
Num(k) == [t |-> "int", s |-> <<>>, n |-> k, items |-> <<>>]
List(xs) == [t |-> "list", s |-> <<>>, n |-> 0, items |-> xs]
\* A mapping with k entries.
Dict(k) == [t |-> "dict", s |-> <<>>, n |-> k, items |-> <<>>]

\* bool(x)
Truthy(x) ==
    CASE x.t = "str" -> x.s # <<>>
      [] x.t = "int" -> x.n # 0
      [] x.t = "list" -> x.items # <<>>
      [] x.t = "dict" -> x.n # 0
      [] OTHER -> FALSE

\* a or b
Or(a, b) == IF Truthy(a) THEN a ELSE b

\* isinstance(x, list)
IsList(x) == x.t = "list"

\* Whether hash(x) succeeds: lists and dicts are unhashable (TypeError).
Hashable(x) == x.t \notin {"list", "dict"}

\* item.get(key)
Get(item, key) == IF item[key].t = "absent" THEN None ELSE item[key]

\* item.get(key, default)
GetDefault(item, key, default) ==
    IF item[key].t = "absent" THEN default ELSE item[key]

Upper == <<"A", "B", "C", "D", "E", "F", "G", "H", "I", "J", "K", "L", "M", "N", "O", "P", "Q", "R", "S", "T", "U", "V", "W", "X", "Y", "Z">>
Lower == <<"a", "b", "c", "d", "e", "f", "g", "h", "i", "j", "k", "l", "m", "n", "o", "p", "q", "r", "s", "t", "u", "v", "w", "x", "y", "z">>

\* str.lower(), character by character
LowerChar(c) ==
    IF \E i \in 1..Len(Upper) : Upper[i] = c
    THEN Lower[CHOOSE i \in 1..Len(Upper) : Upper[i] = c]
    ELSE c
ToLower(chars) == [i \in 1..Len(chars) |-> LowerChar(chars[i])]

\* key in text
Contains(text, key) ==
    \E i \in 0..(Len(text) - Len(key)) : SubSeq(text, i + 1, i + Len(key)) = key

\* ------------------------------------------------------ string literals
\* "pdf"
S_pdf == <<"p", "d", "f">>
\* "PDF"
S_PDF == <<"P", "D", "F">>
\* "Book"
S_Book == <<"B", "o", "o", "k">>
\* "x"
S_x == <<"x">>
\* "unknown"
S_unknown == <<"u", "n", "k", "n", "o", "w", "n">>
\* "Unknown Format"
S_Unknown_Format == <<"U", "n", "k", "n", "o", "w", "n", " ", "F", "o", "r", "m", "a", "t">>
\* "Unknown"
S_Unknown == <<"U", "n", "k", "n", "o", "w", "n">>
\* "Unknown Entity"
S_Unknown_Entity == <<"U", "n", "k", "n", "o", "w", "n", " ", "E", "n", "t", "i", "t", "y">>
\* "All Rights Reserved"
S_All_Rights_Reserved == <<"A", "l", "l", " ", "R", "i", "g", "h", "t", "s", " ", "R", "e", "s", "e", "r", "v", "e", "d">>
\* "Strictly Restricted (Vogon Style)"
S_Strictly_Restricted == <<"S", "t", "r", "i", "c", "t", "l", "y", " ", "R", "e", "s", "t", "r", "i", "c", "t", "e", "d", " ", "(", "V", "o", "g", "o", "n", " ", "S", "t", "y", "l", "e", ")">>
\* "CC-BY 4.0"
S_CC_BY_4_0 == <<"C", "C", "-", "B", "Y", " ", "4", ".", "0">>
\* "CC0"
S_CC0 == <<"C", "C", "0">>
\* "Creative Commons Attribution"
S_Creative_Commons == <<"C", "r", "e", "a", "t", "i", "v", "e", " ", "C", "o", "m", "m", "o", "n", "s", " ", "A", "t", "t", "r", "i", "b", "u", "t", "i", "o", "n">>
\* "cc-by"
K_cc_by == <<"c", "c", "-", "b", "y">>
\* "creative commons"
K_creative_commons == <<"c", "r", "e", "a", "t", "i", "v", "e", " ", "c", "o", "m", "m", "o", "n", "s">>
\* "public domain"
K_public_domain == <<"p", "u", "b", "l", "i", "c", " ", "d", "o", "m", "a", "i", "n">>
\* "open-access"
K_open_access == <<"o", "p", "e", "n", "-", "a", "c", "c", "e", "s", "s">>
\* "cc0"
K_cc0 == <<"c", "c", "0">>

\* ------------------------------------------------------ the year range
Y2007 == <<"2", "0", "0", "7">>
Y2008 == <<"2", "0", "0", "8">>
Y2010 == <<"2", "0", "1", "0">>
Y2023 == <<"2", "0", "2", "3">>
Y2024 == <<"2", "0", "2", "4">>
\* No text: the variant takes no year from the user.
NoInput == <<>>

\* v01 and v02 hard-code the range 2023-2024; from v04 on the two years
\* are the function's arguments, typed by the user.
Interactive(v) == v \in {"v04", "v05", "v06", "HitchhikersGuide"}

\* query_string =
\*   f"created:[{start_year}-01-01T00:00:00Z TO {end_year}-12-31T23:59:59Z]"
QueryString(v, start_year, end_year) ==
    IF Interactive(v)
    THEN <<"created:[">> \o start_year \o <<"-01-01T00:00:00Z TO ">>
         \o end_year \o <<"-12-31T23:59:59Z]">>
    ELSE <<"created:[">> \o Y2023 \o <<"-01-01T00:00:00Z TO ">>
         \o Y2024 \o <<"-12-31T23:59:59Z]">>

\* The parameters of one GET: the filter expression, the offset and the
\* page size (the probe sends rows = 0 and no offset, which the endpoint
\* reads as 0).
Request(q, offset, rows) == [q |-> q, start |-> offset, rows |-> rows]

\* ------------------------------------------------ the search endpoint
\* The dataset is a fixed list of records; record i is identified by i.
\* Slice(offset, k): the k records that follow the first `offset` ones.
Slice(offset, k) == [i \in 1..k |-> offset + i]

\* One HTTP exchange as the code sees it:
\*   raises     requests.get raised (timeout, connection error)
\*   status_ok  the HTTP status is a success status
\*   is_json    the body parses as JSON
\*   envelope   the body has 'response' and the field read from it
\*   numFound / docs   the field's value when the envelope has it
Response(raises, status_ok, is_json, envelope, n, docs) ==
    [raises |-> raises, status_ok |-> status_ok, is_json |-> is_json,
     envelope |-> envelope, numFound |-> n, docs |-> docs]

\* A failure of the network or of the protocol.
IsFailure(r) == r.raises \/ ~r.status_ok \/ ~r.is_json \/ ~r.envelope

ProbeResponses ==
    {Response(FALSE, TRUE, TRUE, TRUE, n, <<>>) : n \in 0..MaxTotal}
    \cup {Response(TRUE, TRUE, FALSE, FALSE, 0, <<>>),   \* timeout
          Response(FALSE, FALSE, TRUE, FALSE, 0, <<>>),  \* error status, JSON body
          Response(FALSE, FALSE, FALSE, FALSE, 0, <<>>), \* error status, HTML body
          Response(FALSE, TRUE, FALSE, FALSE, 0, <<>>),  \* 200, body is not JSON
          Response(FALSE, TRUE, TRUE, FALSE, 0, <<>>)}   \* 200, no 'numFound'

\* The numbers of records a page may hold: the exact slice of the probed
\* total, one record less, none, or a full page (the dataset has grown).
PageCounts(offset, rows, total) ==
    LET full == Max(0, Min(rows, total - offset))
    IN  {full, Max(0, full - 1), 0, rows}

PageResponses(offset, rows, total) ==
    {Response(FALSE, TRUE, TRUE, TRUE, 0, Slice(offset, k)) :
        k \in PageCounts(offset, rows, total)}
    \cup {Response(TRUE, TRUE, FALSE, FALSE, 0, <<>>),
          Response(FALSE, FALSE, TRUE, FALSE, 0, <<>>),
          Response(FALSE, FALSE, FALSE, FALSE, 0, <<>>),
          Response(FALSE, TRUE, FALSE, FALSE, 0, <<>>),
          Response(FALSE, TRUE, TRUE, FALSE, 0, <<>>)}

\* The page is exactly the slice of the probed dataset that was asked for.
ExactPage(r, offset, rows, total) ==
    /\ ~IsFailure(r)
    /\ r.docs = Slice(offset, Max(0, Min(rows, total - offset)))

\* ------------------------------------------------------- the cache file
NoFile == [exists |-> FALSE, docs |-> <<>>]
\* What an earlier run left behind.
StaleFile == [exists |-> TRUE, docs |-> <<0>>]
\* json.dump({"response": {"docs": all_docs}}, f)
CacheOf(docs) == [exists |-> TRUE, docs |-> docs]

VARIABLES
    version,      \* which script variant runs
    pc,           \* "probe", "page" (head of the while loop), "done"
    total_found,  \* fetch_all_phaidra_data's local
    start,        \* fetch_all_phaidra_data's local
    all_docs,     \* fetch_all_phaidra_data's local
    result,       \* "none" until the function returns, then "True" or "False"
    diag,         \* the diagnostic printed on return
    cache,        \* the content of phaidra_audit.json
    probes,       \* history: number of probe requests issued
    requested,    \* history: the 'start' offsets of the page requests
    grew,         \* history: the records each page request added
    writes,       \* history: number of times the cache file was written
    failed,       \* history: some request met a network or protocol failure
    exact,        \* history: every page so far was the exact slice asked for
    query_string, \* fetch_all_phaidra_data's local
    sent,         \* history: the parameters of every request, in order
    pages         \* history: the records of every page appended, in order

hvars == <<version, pc, total_found, start, all_docs, result, diag, cache,
           probes, requested, grew, writes, failed, exact, query_string, sent,
           pages>>

VARIABLES
    mpc,          \* the position of the __main__ block
    user_start,   \* __main__'s variable: the start year as typed
    user_end,     \* __main__'s variable: the end year as typed
    run,          \* the number of the current run (1 or 2)
    prev          \* what the first run left, once a second run has begun

mvars == <<mpc, user_start, user_end, run, prev>>

\* Before a second run there is nothing to compare with.
NoPrev == [sent |-> <<>>, cache |-> NoFile, total_found |-> 0,
           result |-> "none", docs |-> <<>>, stats |-> <<>>,
           apc |-> "idle", version |-> "none"]

\* The year arguments a single call of the harvest is given.
YearArgs == {<<Y2008, Y2010>>, <<Y2023, Y2024>>}
CallArgs(v) == IF Interactive(v) THEN YearArgs ELSE {<<NoInput, NoInput>>}

\* --------------------------------------------- fetch_all_phaidra_data
\* requests.get(...), raise_for_status() where the variant has it, .json():
\* whether the exchange ends in an exception.
Raises(v, r) ==
    \/ r.raises
    \/ RaisesForStatus(v) /\ ~r.status_ok
    \/ ~r.is_json

\* response.json().get('response', {}).get('numFound', 0)
NumFoundOf(r) == IF r.envelope THEN r.numFound ELSE 0

\* page_res.json().get('response', {}).get('docs', [])
DocsOf(r) == IF r.envelope THEN r.docs ELSE <<>>

\* Mutant of LoopCond: while start <= total_found
LoopCond_Inclusive(s, total) == s <= total

\* while start < total_found
LoopCond(s, total) == s < total

\* Mutant of Extend: all_docs = docs + all_docs
Extend_Prepend(all, docs) == docs \o all

\* all_docs.extend(docs)
Extend(all, docs) == all \o docs

\* Mutant of NextStart: start += len(docs)
NextStart_ByCount(s, docs) == s + Len(docs)

\* start += rows_per_page
NextStart(s, docs) == s + rows_per_page

\* Mutant of EntryDocs: the list is shared between the calls (a default
\* argument or a module-level list) and keeps what it held.
EntryDocs_Shared(old) == old

\* all_docs = [] at the entry of the function
EntryDocs(old) == <<>>

\* except Exception as e: print(...); return False
ReturnFailure ==
    /\ pc' = "done"
    /\ result' = "False"
    /\ diag' = "critical_error"

HarvestInit ==
    /\ version \in Versions
    /\ pc = "probe"
    /\ total_found = 0
    /\ start = 0
    /\ all_docs = <<>>
    /\ result = "none"
    /\ diag = "none"
    /\ cache \in {NoFile, StaleFile}
    /\ probes = 0
    /\ requested = <<>>
    /\ grew = <<>>
    /\ writes = 0
    /\ failed = FALSE
    /\ exact = TRUE
    /\ mpc = "fetch"
    /\ \E args \in CallArgs(version) :
        /\ user_start = args[1]
        /\ user_end = args[2]
    /\ query_string = QueryString(version, user_start, user_end)
    /\ sent = <<>>
    /\ pages = <<>>
    /\ run = 1
    /\ prev = NoPrev

\* The handshake: the rows=0 request and the reading of numFound, the
\* endpoint answering with one of `responses`.
ProbeFrom(responses) ==
    /\ pc = "probe"
    /\ \E r \in responses :
        /\ probes' = probes + 1
        /\ sent' = Append(sent, Request(query_string, 0, 0))
        /\ failed' = (failed \/ IsFailure(r))
        /\ IF Raises(version, r)
           THEN /\ ReturnFailure
                /\ UNCHANGED total_found
           ELSE /\ total_found' = NumFoundOf(r)
                /\ IF HasEmptyCheck(version) /\ NumFoundOf(r) = 0
                   THEN /\ pc' = "done"
                        /\ result' = "False"
                        /\ diag' = "no_objects_found"
                   ELSE /\ pc' = "page"
                        /\ UNCHANGED <<result, diag>>
    /\ UNCHANGED <<version, start, all_docs, cache, requested, grew, writes,
                   exact, query_string, pages>>

Probe == ProbeFrom(ProbeResponses)

\* One iteration of the while loop: one page request.
Page ==
    /\ pc = "page"
    /\ LoopCond(start, total_found)
    /\ \E r \in PageResponses(start, rows_per_page, total_found) :
        /\ requested' = Append(requested, start)
        /\ sent' = Append(sent, Request(query_string, start, rows_per_page))
        /\ failed' = (failed \/ IsFailure(r))
        /\ exact' = (exact /\ ExactPage(r, start, rows_per_page, total_found))
        /\ IF Raises(version, r)
           THEN /\ ReturnFailure
                /\ UNCHANGED <<start, all_docs, grew, pages>>
           ELSE /\ all_docs' = Extend(all_docs, DocsOf(r))
                /\ start' = NextStart(start, DocsOf(r))
                /\ grew' = Append(grew, Len(all_docs') - Len(all_docs))
                /\ pages' = Append(pages, DocsOf(r))
                /\ UNCHANGED <<pc, result, diag>>
    /\ UNCHANGED <<version, total_found, cache, probes, writes, query_string>>

\* The loop is left: open(filename, 'w'), json.dump, return True.  open()
\* may raise (OSError), which the except clause turns into return False.
WriteCache ==
    /\ pc = "page"
    /\ ~LoopCond(start, total_found)
    /\ \E opened \in BOOLEAN :
        IF opened
        THEN /\ cache' = CacheOf(all_docs)
             /\ writes' = writes + 1
             /\ pc' = "done"
             /\ result' = "True"
             /\ UNCHANGED diag
        ELSE /\ ReturnFailure
             /\ UNCHANGED <<cache, writes>>
    /\ UNCHANGED <<version, total_found, start, all_docs, probes, requested,
                   grew, failed, exact, query_string, sent, pages>>

\* ------------------------------------------------------- raw records
\* A record of the cache's 'docs' list: the fields the scripts read.
Item(pid, mimetype, format, resourcetype, license) ==
    [pid |-> pid, file_mimetype |-> mimetype, dc_format |-> format,
     resourcetype |-> resourcetype, dc_license |-> license]

\* The records the analysis functions are run on: every shape of a field
\* (absent, null, empty, scalar, one- and two-element list, nested list,
\* mapping, number) occurs in a format field and in the license field.
Records ==
    {Item(Str(S_x), Str(S_pdf), Absent, Absent, Str(S_CC_BY_4_0)),
     Item(Absent, Absent, List(<<Str(S_PDF)>>), Absent, List(<<Str(S_CC0)>>)),
     Item(Absent, Absent, Absent, Str(S_Book), Absent),
     Item(Absent, Absent, Absent, Absent, Str(S_All_Rights_Reserved)),
     Item(Absent, List(<<>>), Str(S_PDF), Absent, List(<<>>)),
     Item(Absent, Str(<<>>), None, List(<<Str(S_Book), Str(S_x)>>), None),
     Item(Absent, List(<<Str(S_pdf), Str(S_PDF)>>), Str(S_PDF), Str(S_Book),
          Str(S_Creative_Commons)),
     Item(Absent, Str(S_pdf), Absent, Absent, Num(7)),
     Item(Absent, Str(S_pdf), Absent, Absent, Str(<<>>)),
     Item(Absent, List(<<List(<<Str(S_pdf)>>)>>), Absent, Absent, Absent),
     Item(Absent, Dict(1), Absent, Absent, Str(S_CC0)),
     Item(Absent, Str(S_PDF), Absent, Absent, Dict(1)),
     Item(Absent, Absent, Str(S_Book), Absent, Str(S_CC_BY_4_0))}

SeqsUpTo(S, n) == UNION {[1..k -> S] : k \in 0..n}

\* ------------------------------------ analyze_data / analyze_and_export
\* v01..v05 define analyze_data, v06 and HitchhikersGuide analyze_and_export.
IsAnalyzeData(v) == v \in {"v01", "v02", "v04", "v05"}

\* The last operand of the format chain.
UnknownFormat(v) ==
    CASE v = "v01" -> S_unknown
      [] v = "v02" -> S_Unknown_Format
      [] v = "HitchhikersGuide" -> S_Unknown_Entity
      [] OTHER -> S_Unknown

\* The default of item.get('dc_license', ...).
DefaultLicense(v) ==
    IF v = "HitchhikersGuide" THEN S_Strictly_Restricted
    ELSE S_All_Rights_Reserved

\* raw_format = item.get('file_mimetype') or item.get('dc_format')
\*              [or item.get('resourcetype')] or 'Unknown'
RawFormat(v, item) ==
    IF IsAnalyzeData(v)
    THEN Or(Or(Or(Get(item, "file_mimetype"), Get(item, "dc_format")),
               Get(item, "resourcetype")), Str(UnknownFormat(v)))
    ELSE Or(Or(Get(item, "file_mimetype"), Get(item, "dc_format")),
            Str(UnknownFormat(v)))

\* raw_lic = item.get('dc_license', 'All Rights Reserved')
RawLicense(v, item) == GetDefault(item, "dc_license", Str(DefaultLicense(v)))

\* analyze_data:       x[0] if isinstance(x, list) and x else x
\* analyze_and_export: x[0] if isinstance(x, list) else x
TakesFirst(v, x) == IsList(x) /\ (IsAnalyzeData(v) => Truthy(x))

\* x[0] of an empty list: IndexError.
CollapseRaises(v, x) == TakesFirst(v, x) /\ x.items = <<>>

Collapse(v, x) == IF TakesFirst(v, x) THEN x.items[1] ELSE x

\* d.get(k, default)
DictGet(d, k, default) == IF k \in DOMAIN d THEN d[k] ELSE default

\* d[k] = val            ({} is the function of empty domain, <<>>)
Put(d, k, val) == [x \in DOMAIN d \cup {k} |-> IF x = k THEN val ELSE d[x]]

\* Mutant of EnsureRow: stats[mime] = <row>, whether or not mime is a key
EnsureRow_Always(st, mime, row) == Put(st, mime, row)

\* if mime not in stats: stats[mime] = <row>
EnsureRow(st, mime, row) == IF mime \in DOMAIN st THEN st ELSE Put(st, mime, row)

\* Mutant of Increment: stats[mime][lic] = 1
Increment_Reset(row, lic) == Put(row, lic, 1)

\* stats[mime][lic] = stats[mime].get(lic, 0) + 1
Increment(row, lic) == Put(row, lic, DictGet(row, lic, 0) + 1)

open_keywords ==
    <<K_cc_by, K_creative_commons, K_public_domain, K_open_access, K_cc0>>

\* Mutant of is_open: any(key in lic for key in open_keywords)
is_open_CaseSensitive(lic) ==
    \E i \in 1..Len(open_keywords) : Contains(lic.s, open_keywords[i])

\* any(key in lic.lower() for key in open_keywords)
is_open(lic) ==
    \E i \in 1..Len(open_keywords) : Contains(ToLower(lic.s), open_keywords[i])

\* {'Total': 0, 'Open': 0, 'Restricted': 0}
NewRow == [Total |-> 0, Open |-> 0, Restricted |-> 0]

\* stats[mime]['Total'] += 1
CountTotal(row) == [row EXCEPT !.Total = @ + 1]

\* Mutant of Categorize: the else branch is missing
Categorize_NoElse(row, open) ==
    IF open THEN [row EXCEPT !.Open = @ + 1] ELSE row

\* if is_open: stats[mime]['Open'] += 1  else: stats[mime]['Restricted'] += 1
Categorize(row, open) ==
    IF open THEN [row EXCEPT !.Open = @ + 1]
    ELSE [row EXCEPT !.Restricted = @ + 1]

NoExports == [written |-> FALSE, detailed |-> <<>>, summary |-> <<>>]

VARIABLES
    apc,            \* "idle", "open", "loop", "returned", "raised"
    docs,           \* the analysis function's local: the cached record list
    idx,            \* the number of records the for loop has completed
    stats,          \* the analysis function's local table
    detailed_list,  \* the (PID, Format, License) row of each record that got
                    \* past the cleaner (analyze_and_export's local; for
                    \* analyze_data a history of mime and lic)
    exception,      \* the exception the analysis function raised, or "none"
    exports         \* the two CSV files analyze_and_export writes

avars == <<apc, docs, idx, stats, detailed_list, exception, exports>>

vars == <<hvars, avars, mvars>>

AnalysisIdle ==
    /\ apc = "idle"
    /\ docs = <<>>
    /\ idx = 0
    /\ stats = <<>>
    /\ detailed_list = <<>>
    /\ exception = "none"
    /\ exports = NoExports

\* with open(filename, 'r') as f: content = json.load(f)
\* docs = content.get('response', {}).get('docs', [])
\* `content` is the record list the file holds.
ReadCacheAs(content) ==
    /\ apc = "open"
    /\ IF cache.exists
       THEN /\ docs' = content
            /\ apc' = "loop"
            /\ UNCHANGED exception
       ELSE /\ apc' = "raised"
            /\ exception' = "FileNotFoundError"
            /\ UNCHANGED docs
    /\ UNCHANGED <<idx, stats, detailed_list, exports, hvars, mvars>>

ReadCache == ReadCacheAs(cache.docs)

Raise(name) ==
    /\ apc' = "raised"
    /\ exception' = name
    /\ UNCHANGED idx

\* One iteration of analyze_data's for loop.
AnalyzeDataItem ==
    /\ apc = "loop"
    /\ IsAnalyzeData(version)
    /\ idx < Len(docs)
    /\ LET item == docs[idx + 1]
           raw_format == RawFormat(version, item)
           raw_lic == RawLicense(version, item)
           mime == Collapse(version, raw_format)
           lic == Collapse(version, raw_lic)
           row == [PID |-> Get(item, "pid"), Format |-> mime, License |-> lic]
           stats1 == EnsureRow(stats, mime, <<>>)
       IN  /\ detailed_list' = Append(detailed_list, row)
           /\ IF ~Hashable(mime)
              THEN /\ Raise("TypeError")
                   /\ UNCHANGED stats
              ELSE IF ~Hashable(lic)
              THEN /\ Raise("TypeError")
                   /\ stats' = stats1
              ELSE /\ stats' = Put(stats1, mime, Increment(stats1[mime], lic))
                   /\ idx' = idx + 1
                   /\ UNCHANGED <<apc, exception>>
    /\ UNCHANGED <<docs, exports, hvars, mvars>>

\* One iteration of analyze_and_export's for loop.
AnalyzeExportItem ==
    /\ apc = "loop"
    /\ ~IsAnalyzeData(version)
    /\ idx < Len(docs)
    /\ LET item == docs[idx + 1]
           raw_format == RawFormat(version, item)
           raw_lic == RawLicense(version, item)
       IN  IF CollapseRaises(version, raw_format) \/ CollapseRaises(version, raw_lic)
           THEN /\ Raise("IndexError")
                /\ UNCHANGED <<stats, detailed_list>>
           ELSE LET mime == Collapse(version, raw_format)
                    lic == Collapse(version, raw_lic)
                    row == [PID |-> Get(item, "pid"), Format |-> mime,
                            License |-> lic]
                    stats1 == EnsureRow(stats, mime, NewRow)
                    stats2 == Put(stats1, mime, CountTotal(stats1[mime]))
                IN  /\ detailed_list' = Append(detailed_list, row)
                    /\ IF ~Hashable(mime)
                       THEN /\ Raise("TypeError")
                            /\ UNCHANGED stats
                       ELSE IF lic.t # "str"
                       THEN /\ Raise("AttributeError")
                            /\ stats' = stats2
                       ELSE /\ stats' = Put(stats2, mime,
                                            Categorize(stats2[mime], is_open(lic)))
                            /\ idx' = idx + 1
                            /\ UNCHANGED <<apc, exception>>
    /\ UNCHANGED <<docs, exports, hvars, mvars>>

\* The for loop is exhausted: analyze_and_export writes its two CSV files;
\* both functions return stats.
AnalyzeReturn ==
    /\ apc = "loop"
    /\ idx = Len(docs)
    /\ apc' = "returned"
    /\ exports' = IF IsAnalyzeData(version) THEN exports
                  ELSE [written |-> TRUE, detailed |-> detailed_list,
                        summary |-> stats]
    /\ UNCHANGED <<docs, idx, stats, detailed_list, exception, hvars, mvars>>

\* ------------------------------------------------------ specifications
\* One run of fetch_all_phaidra_data against the search endpoint.
Init == HarvestInit /\ AnalysisIdle

Next ==
    \/ Probe /\ UNCHANGED <<avars, mvars>>
    \/ Page /\ UNCHANGED <<avars, mvars>>
    \/ WriteCache /\ UNCHANGED <<avars, mvars>>

Spec == Init /\ [][Next]_vars

\* One run of the analysis function on a cache file holding any list of at
\* most MaxDocs records (or on a missing cache file).
AnalysisInit ==
    /\ version \in Versions
    /\ pc = "done"
    /\ total_found = 0
    /\ start = 0
    /\ all_docs = <<>>
    /\ result = "none"
    /\ diag = "none"
    /\ cache \in {NoFile} \cup {CacheOf(d) : d \in SeqsUpTo(Records, MaxDocs)}
    /\ probes = 0
    /\ requested = <<>>
    /\ grew = <<>>
    /\ writes = 0
    /\ failed = FALSE
    /\ exact = TRUE
    /\ mpc = "analysis"
    /\ user_start = NoInput
    /\ user_end = NoInput
    /\ query_string = <<>>
    /\ sent = <<>>
    /\ pages = <<>>
    /\ run = 1
    /\ prev = NoPrev
    /\ apc = "open"
    /\ docs = <<>>
    /\ idx = 0
    /\ stats = <<>>
    /\ detailed_list = <<>>
    /\ exception = "none"
    /\ exports = NoExports

AnalysisNext ==
    \/ ReadCache
    \/ AnalyzeDataItem
    \/ AnalyzeExportItem
    \/ AnalyzeReturn

AnalysisSpec == AnalysisInit /\ [][AnalysisNext]_vars

\* -------------------------------------------------- the __main__ block
\* The characters int() reads as decimal digits.
DecimalDigits == <<"0", "1", "2", "3", "4", "5", "6", "7", "8", "9">>

\* One character, U+00B2 (superscript two): str.isdigit() holds of it and
\* int() rejects it.
SuperscriptTwo == "sup2"

IsDecimal(c) == \E d \in 1..Len(DecimalDigits) : DecimalDigits[d] = c

\* text.isdigit(): the text is not empty and each character is a digit.
isdigit(text) ==
    /\ text # <<>>
    /\ \A i \in 1..Len(text) : IsDecimal(text[i]) \/ text[i] = SuperscriptTwo

\* int(text) raises ValueError.
IntRaises(text) ==
    \/ text = <<>>
    \/ \E i \in 1..Len(text) : ~IsDecimal(text[i])

DigitValue(c) == (CHOOSE d \in 1..Len(DecimalDigits) : DecimalDigits[d] = c) - 1

RECURSIVE int(_)
\* int(text), for a text of decimal digits.
int(text) ==
    IF text = <<>> THEN 0
    ELSE 10 * int(SubSeq(text, 1, Len(text) - 1)) + DigitValue(text[Len(text)])

\* What the user may type at a prompt.
Inputs == {<<"a", "b", "c">>, <<>>, <<SuperscriptTwo>>, Y2007, Y2008, Y2010}

\* An uncaught exception ends the script.
Crash == mpc' = "crashed"

\* One round of the start-year loop: input(), the two tests, break.
PromptStart ==
    /\ mpc = "start_prompt"
    /\ \E text \in Inputs :
        /\ user_start' = text
        /\ IF ~isdigit(text) THEN UNCHANGED mpc
           ELSE IF IntRaises(text) THEN Crash
           ELSE IF int(text) < 2008 THEN UNCHANGED mpc
           ELSE mpc' = "end_prompt"
    /\ UNCHANGED <<user_end, run, prev>>

\* v04: user_end = input(...), with no test.  Later variants: one round
\* of the end-year loop.
PromptEnd ==
    /\ mpc = "end_prompt"
    /\ \E text \in Inputs :
        /\ user_end' = text
        /\ IF version = "v04" THEN mpc' = "call"
           ELSE IF ~isdigit(text) THEN UNCHANGED mpc
           ELSE IF IntRaises(text) THEN Crash
           ELSE IF int(text) < int(user_start) THEN UNCHANGED mpc
           ELSE mpc' = "call"
    /\ UNCHANGED <<user_start, run, prev>>

\* fetch_all_phaidra_data(user_start, user_end) is entered: its locals.
CallFetch ==
    /\ mpc = "call"
    /\ mpc' = "fetch"
    /\ pc' = "probe"
    /\ query_string' = QueryString(version, user_start, user_end)
    /\ all_docs' = EntryDocs(all_docs)
    /\ start' = 0
    /\ UNCHANGED <<version, total_found, result, diag, cache, probes,
                   requested, grew, writes, failed, exact, sent, pages>>
    /\ UNCHANGED <<user_start, user_end, run, prev>>

\* if fetch_all_phaidra_data(...): the analysis function is called when
\* the harvest returned True, and the script ends when it returned False.
AfterFetch ==
    /\ mpc = "fetch"
    /\ pc = "done"
    /\ IF result = "True"
       THEN /\ mpc' = "analysis"
            /\ apc' = "open"
       ELSE /\ mpc' = "exit"
            /\ UNCHANGED apc
    /\ UNCHANGED <<docs, idx, stats, detailed_list, exception, exports>>
    /\ UNCHANGED <<user_start, user_end, run, prev>>

\* The records of the dataset behind the identifiers the harvest stored:
\* record i has one of these metadata shapes, by turns.
DatasetShapes ==
    <<Item(Absent, Str(S_pdf), Absent, Absent, Str(S_CC_BY_4_0)),
      Item(Absent, Absent, List(<<Str(S_PDF)>>), Absent, List(<<Str(S_CC0)>>)),
      Item(Absent, Absent, Absent, Str(S_Book), Absent),
      Item(Absent, Absent, Absent, Absent, Str(S_All_Rights_Reserved)),
      Item(Absent, Str(S_pdf), Absent, Absent, None)>>

DatasetRecord(i) ==
    [DatasetShapes[(i % Len(DatasetShapes)) + 1] EXCEPT !.pid = Num(i)]

\* The analysis function reads the cache the harvest of this run wrote.
ReadHarvested ==
    ReadCacheAs([i \in 1..Len(cache.docs) |-> DatasetRecord(cache.docs[i])])

\* The analysis function returned: the summary is printed and the charts
\* are drawn.  It raised: the script ends with the traceback.
Report ==
    /\ mpc = "analysis"
    /\ apc \in {"returned", "raised"}
    /\ IF apc = "returned" THEN mpc' = "exit" ELSE Crash
    /\ UNCHANGED <<user_start, user_end, run, prev>>

\* The probe answers of the pipeline runs: the totals up to
\* MaxPipelineTotal, and every failure.
PipelineProbeResponses ==
    {r \in ProbeResponses : r.numFound <= MaxPipelineTotal}

PipelineProbe == ProbeFrom(PipelineProbeResponses)

\* One run of a script from its first line: the prompts (where the
\* variant has them), the harvest, the analysis, the report.
PipelineInit ==
    /\ version \in Versions
    /\ pc = "idle"
    /\ total_found = 0
    /\ start = 0
    /\ all_docs = <<>>
    /\ result = "none"
    /\ diag = "none"
    /\ cache \in {NoFile, StaleFile}
    /\ probes = 0
    /\ requested = <<>>
    /\ grew = <<>>
    /\ writes = 0
    /\ failed = FALSE
    /\ exact = TRUE
    /\ query_string = <<>>
    /\ sent = <<>>
    /\ pages = <<>>
    /\ mpc = IF Interactive(version) THEN "start_prompt" ELSE "call"
    /\ user_start = NoInput
    /\ user_end = NoInput
    /\ run = 1
    /\ prev = NoPrev
    /\ AnalysisIdle

PipelineNext ==
    \/ PromptStart /\ UNCHANGED <<hvars, avars>>
    \/ PromptEnd /\ UNCHANGED <<hvars, avars>>
    \/ CallFetch /\ UNCHANGED avars
    \/ PipelineProbe /\ UNCHANGED <<avars, mvars>>
    \/ Page /\ UNCHANGED <<avars, mvars>>
    \/ WriteCache /\ UNCHANGED <<avars, mvars>>
    \/ AfterFetch /\ UNCHANGED hvars
    \/ ReadHarvested
    \/ AnalyzeDataItem
    \/ AnalyzeExportItem
    \/ AnalyzeReturn
    \/ Report /\ UNCHANGED <<hvars, avars>>

PipelineSpec == PipelineInit /\ [][PipelineNext]_vars

\* ------------------------------------------- two runs of the analysis
\* The records of the caches that are analysed twice.
PairRecords ==
    {Item(Str(S_x), Str(S_pdf), Absent, Absent, Str(S_CC_BY_4_0)),
     Item(Absent, Absent, List(<<Str(S_PDF)>>), Absent, List(<<Str(S_CC0)>>)),
     Item(Absent, Absent, Absent, Str(S_Book), Absent),
     Item(Absent, Str(S_pdf), Absent, Absent, Str(<<>>)),
     Item(Absent, Absent, Str(S_Book), Absent, Str(S_CC_BY_4_0)),
     Item(Absent, Str(S_pdf), Absent, Absent, Num(7))}

\* The locals of the analysis function at its entry.
AnalysisEntry ==
    /\ apc' = "open"
    /\ docs' = <<>>
    /\ idx' = 0
    /\ stats' = <<>>
    /\ detailed_list' = <<>>
    /\ exception' = "none"
    /\ UNCHANGED exports

\* What the run that has ended leaves for the comparison.
Outcome ==
    [sent |-> sent, cache |-> cache, total_found |-> total_found,
     result |-> result, docs |-> docs, stats |-> stats, apc |-> apc,
     version |-> version]

\* The analysis function has ended; the cached records are stored again
\* in another order and the same function is run on them.
AnalyzeReordered ==
    /\ run = 1
    /\ apc \in {"returned", "raised"}
    /\ cache.exists
    /\ \E p \in Permutations(1..Len(cache.docs)) :
        cache' = CacheOf([i \in 1..Len(cache.docs) |-> cache.docs[p[i]]])
    /\ run' = 2
    /\ prev' = Outcome
    /\ AnalysisEntry
    /\ UNCHANGED <<version, pc, total_found, start, all_docs, result, diag,
                   probes, requested, grew, writes, failed, exact,
                   query_string, sent, pages>>
    /\ UNCHANGED <<mpc, user_start, user_end>>

\* The analysis function has ended; the other variant's analysis function
\* (analyze_data of v05, analyze_and_export of v06) is run on the same
\* cache.
AnalyzeWithOther ==
    /\ run = 1
    /\ apc \in {"returned", "raised"}
    /\ version' = IF version = "v05" THEN "v06" ELSE "v05"
    /\ run' = 2
    /\ prev' = Outcome
    /\ AnalysisEntry
    /\ UNCHANGED <<pc, total_found, start, all_docs, result, diag, cache,
                   probes, requested, grew, writes, failed, exact,
                   query_string, sent, pages>>
    /\ UNCHANGED <<mpc, user_start, user_end>>

PairInit ==
    /\ version \in {"v05", "v06"}
    /\ pc = "done"
    /\ total_found = 0
    /\ start = 0
    /\ all_docs = <<>>
    /\ result = "none"
    /\ diag = "none"
    /\ cache \in {NoFile} \cup
                 {CacheOf(d) : d \in SeqsUpTo(PairRecords, MaxPairDocs)}
    /\ probes = 0
    /\ requested = <<>>
    /\ grew = <<>>
    /\ writes = 0
    /\ failed = FALSE
    /\ exact = TRUE
    /\ mpc = "analysis"
    /\ user_start = NoInput
    /\ user_end = NoInput
    /\ query_string = <<>>
    /\ sent = <<>>
    /\ pages = <<>>
    /\ run = 1
    /\ prev = NoPrev
    /\ apc = "open"
    /\ docs = <<>>
    /\ idx = 0
    /\ stats = <<>>
    /\ detailed_list = <<>>
    /\ exception = "none"
    /\ exports = NoExports

PairNext ==
    \/ ReadCache
    \/ AnalyzeDataItem
    \/ AnalyzeExportItem
    \/ AnalyzeReturn
    \/ AnalyzeReordered
    \/ AnalyzeWithOther

\* The analysis function run twice: on a cache and on the same records in
\* another order, or by the two variants on the same cache.
PairSpec == PairInit /\ [][PairNext]_vars

\* --------------------------------------------- two runs of the harvest
\* The endpoint over a dataset that does not change: the probe reports
\* the size of the dataset (the one of the first run in the second) and
\* each page is the slice asked for.
MockProbeResponses ==
    {r \in ProbeResponses :
        /\ ~IsFailure(r)
        /\ run = 2 => r.numFound = prev.total_found}

MockProbe == ProbeFrom(MockProbeResponses)

MockPage == Page /\ exact' = TRUE

\* The function has returned and is called again with the same years:
\* its locals at entry; the cache file stays as the first run left it.
CallAgain ==
    /\ run = 1
    /\ pc = "done"
    /\ run' = 2
    /\ prev' = Outcome
    /\ pc' = "probe"
    /\ query_string' = QueryString(version, user_start, user_end)
    /\ all_docs' = EntryDocs(all_docs)
    /\ start' = 0
    /\ result' = "none"
    /\ diag' = "none"
    /\ probes' = 0
    /\ requested' = <<>>
    /\ grew' = <<>>
    /\ writes' = 0
    /\ failed' = FALSE
    /\ exact' = TRUE
    /\ sent' = <<>>
    /\ pages' = <<>>
    /\ UNCHANGED <<version, total_found, cache>>
    /\ UNCHANGED <<mpc, user_start, user_end>>

RerunNext ==
    \/ MockProbe /\ UNCHANGED <<avars, mvars>>
    \/ MockPage /\ UNCHANGED <<avars, mvars>>
    \/ WriteCache /\ UNCHANGED <<avars, mvars>>
    \/ CallAgain /\ UNCHANGED avars

\* fetch_all_phaidra_data called twice with the same years against a
\* dataset that does not change.
RerunSpec == Init /\ [][RerunNext]_vars

\* ============================================================= claims
RECURSIVE SumOver(_, _)
\* The sum of f[x] over the keys x in S.
SumOver(f, S) ==
    IF S = {} THEN 0
    ELSE LET x == CHOOSE y \in S : TRUE
         IN  f[x] + SumOver(f, S \ {x})

\* The while loop has been left (its condition was found false).
LoopLeft ==
    \/ pc = "page" /\ start >= total_found
    \/ pc = "done" /\ result = "True"

\* Offsets 0, 100, 200, ... of the ceil(N/100) pages of a total of N.
PageOffsets(total) ==
    [k \in 1..CeilDiv(total, rows_per_page) |-> (k - 1) * rows_per_page]

\* C1: whatever the pages hold (any number of records, none, a body with
\* no 'docs'), the loop issues at most ceil(N/100) page requests for the
\* probed total N; the k-th request leaves start = 100 * k, and once
\* ceil(N/100) requests are made the loop is left and the cache write is
\* the step that is enabled.
C1_PageLoopTerminates ==
    /\ Len(requested) <= CeilDiv(total_found, rows_per_page)
    /\ pc = "page" => start = rows_per_page * Len(requested)
    /\ (pc = "page" /\ Len(requested) = CeilDiv(total_found, rows_per_page))
           => (start >= total_found /\ ENABLED WriteCache)

\* C1 witness: three pages that each held no record, and the run still
\* reached the cache write.
C1_Witness ==
    /\ pc = "done"
    /\ result = "True"
    /\ total_found = MaxTotal
    /\ Len(requested) = CeilDiv(MaxTotal, rows_per_page)
    /\ all_docs = <<>>
    /\ writes = 1

\* C2: when every page is the exact slice of the probed dataset of N > 0
\* records, the loop is left after exactly ceil(N/100) requests at offsets
\* 0, 100, 200, ... and the accumulator holds records 1..N in order.
C2_PaginationComplete ==
    (LoopLeft /\ exact /\ ~failed /\ total_found > 0) =>
        /\ requested = PageOffsets(total_found)
        /\ all_docs = Slice(0, total_found)

\* C2 witness: N = 250, requests at 0, 100, 200, 250 records accumulated.
C2_Witness ==
    /\ pc = "done"
    /\ result = "True"
    /\ exact
    /\ total_found = 250
    /\ requested = <<0, 100, 200>>
    /\ Len(all_docs) = 250
    /\ cache = CacheOf(Slice(0, 250))

\* C3 (as claimed, for v05 and v06, leaving aside the runs in which a
\* request failed): whenever the function returns True, the cache holds as
\* many records as the probe reported.
C3_SuccessMeansFullResult ==
    (version \in {"v05", "v06"} /\ ~failed /\ pc = "done" /\ result = "True") =>
        Len(cache.docs) = total_found

\* C4 (as claimed, for v05): a probe that reports numFound = 0 ends the run
\* with no page request and with success, not with the outcome False that
\* network and protocol errors give.
C4_EmptyResultSucceeds ==
    (version = "v05" /\ pc = "done" /\ ~failed /\ probes = 1
        /\ total_found = 0) =>
        /\ requested = <<>>
        /\ result = "True"

\* C5 (as claimed, for v05 and v06): a run in which a request met a network
\* or protocol failure ends with the failure outcome and without having
\* written the cache file.
C5_FailureAbortsWithoutCache ==
    (version \in {"v05", "v06"} /\ failed /\ pc = "done") =>
        (result = "False" /\ writes = 0)

\* A field is present and non-empty.
PresentNonEmpty(x) ==
    /\ x.t \notin {"absent", "none"}
    /\ ~(x.t = "str" /\ x.s = <<>>)
    /\ ~(x.t = "list" /\ x.items = <<>>)

\* The format fields in the documented priority order.
FormatPriority == <<"file_mimetype", "dc_format", "resourcetype">>

\* The value `x` or, for a sequence, its first element.
ComesFrom(val, x) ==
    \/ val = x
    \/ x.t = "list" /\ x.items # <<>> /\ val = x.items[1]

\* C6 (as claimed, for v05's analyze_data and v06's analyze_and_export):
\* the format resolved for a record comes from the first of file_mimetype,
\* dc_format, resourcetype that is present and non-empty, and is the
\* 'unknown' sentinel when none of them is.
C6_FormatPriority ==
    version \in {"v05", "v06"} =>
    \A i \in 1..Len(detailed_list) :
        LET item == docs[i]
            present == {k \in 1..3 : PresentNonEmpty(item[FormatPriority[k]])}
        IN  IF present = {}
            THEN detailed_list[i].Format = Str(UnknownFormat(version))
            ELSE LET first == CHOOSE k \in present : \A j \in present : k <= j
                 IN  ComesFrom(detailed_list[i].Format, item[FormatPriority[first]])

\* A value that is absent, null, a scalar string or a sequence of scalar
\* strings.
Scalar(x) == x.t = "str"
WellShaped(x) ==
    \/ x.t \in {"absent", "none"}
    \/ Scalar(x)
    \/ x.t = "list" /\ \A j \in 1..Len(x.items) : Scalar(x.items[j])
WellShapedItem(item) ==
    \A f \in {"file_mimetype", "dc_format", "resourcetype", "dc_license"} :
        WellShaped(item[f])

\* C7 (as claimed, for v05's analyze_data and v06's analyze_and_export):
\* for records of well-shaped fields, the format and the license the
\* analysis produces are strings, and so is every key of the table at both
\* levels; no record stops the analysis.
C7_NormalizedAreStrings ==
    (version \in {"v05", "v06"}
        /\ \A i \in 1..Len(docs) : WellShapedItem(docs[i])) =>
        /\ \A i \in 1..Len(detailed_list) :
               /\ detailed_list[i].Format.t = "str"
               /\ detailed_list[i].License.t = "str"
        /\ \A m \in DOMAIN stats :
               /\ m.t = "str"
               /\ IsAnalyzeData(version) =>
                      \A l \in DOMAIN stats[m] : l.t = "str"
        /\ exception \in {"none", "FileNotFoundError"}

\* The record with every empty sequence among its fields removed.
WithoutEmptyLists(item) ==
    [f \in DOMAIN item |-> IF item[f] = List(<<>>) THEN Absent ELSE item[f]]

\* C8 (as claimed, for v02's analyze_data and v06's analyze_and_export):
\* a non-empty sequence resolves to its first element and
\* an empty sequence is treated as an absent field, for the format and for
\* the license (dc_license = [] gives the 'all rights reserved' sentinel);
\* no record is refused because of an empty sequence.
C8_ScalarCollapse ==
    version \in {"v02", "v06"} =>
    /\ \A i \in 1..Len(detailed_list) :
        LET item == docs[i]
            bare == WithoutEmptyLists(item)
        IN  /\ detailed_list[i].Format =
                   Collapse(version, RawFormat(version, bare))
            /\ detailed_list[i].License =
                   Collapse(version, RawLicense(version, bare))
            /\ item.dc_license = List(<<>>) =>
                   detailed_list[i].License = Str(DefaultLicense(version))
            /\ (item.dc_license.t = "list" /\ item.dc_license.items # <<>>) =>
                   detailed_list[i].License = item.dc_license.items[1]
    /\ exception # "IndexError"

\* The sum of all counts of analyze_data's table.
TableSum(table) ==
    LET rowSum == [m \in DOMAIN table |-> SumOver(table[m], DOMAIN table[m])]
    IN  SumOver(rowSum, DOMAIN table)

\* C9: at every point of analyze_data's loop, every stored count is a
\* positive integer and the counts sum to the number of records folded so
\* far; when the function returns, they sum to the length of the input.
C9_AggregatorSum ==
    IsAnalyzeData(version) =>
        /\ \A m \in DOMAIN stats : \A l \in DOMAIN stats[m] :
               stats[m][l] \in Nat \ {0}
        /\ TableSum(stats) = idx
        /\ apc = "returned" => TableSum(stats) = Len(docs)

\* C9 witness: analyze_data has returned a table for a list of at least two
\* records, two of which share format and license.
C9_Witness ==
    /\ IsAnalyzeData(version)
    /\ apc = "returned"
    /\ Len(docs) >= 2
    /\ idx = Len(docs)
    /\ \E m \in DOMAIN stats : \E l \in DOMAIN stats[m] : stats[m][l] >= 2

\* The sum of Total over all formats of analyze_and_export's stats.
TotalSum(st) ==
    LET totals == [m \in DOMAIN st |-> st[m].Total]
    IN  SumOver(totals, DOMAIN st)

\* C10: in analyze_and_export, after every processed record (at the head of
\* the loop and on return), Open + Restricted = Total for every format and
\* the Totals sum to the number of records processed.
C10_OpennessSplit ==
    (~IsAnalyzeData(version) /\ apc \in {"loop", "returned"}) =>
        /\ \A m \in DOMAIN stats :
               stats[m].Open + stats[m].Restricted = stats[m].Total
        /\ TotalSum(stats) = idx

\* C10 witness: analyze_and_export has returned; one format holds an open
\* and a restricted record.
C10_Witness ==
    /\ ~IsAnalyzeData(version)
    /\ apc = "returned"
    /\ idx = Len(docs)
    /\ \E m \in DOMAIN stats : stats[m].Open >= 1 /\ stats[m].Restricted >= 1

\* ---------------------------------------------------------------- C11
\* The small letter of each capital letter.
SmallOf ==
    [c \in {Upper[i] : i \in 1..Len(Upper)} |->
        Lower[CHOOSE i \in 1..Len(Upper) : Upper[i] = c]]

\* Two characters are the same letter, whatever their case.
SameLetter(c, d) ==
    (IF c \in DOMAIN SmallOf THEN SmallOf[c] ELSE c)
        = (IF d \in DOMAIN SmallOf THEN SmallOf[d] ELSE d)

\* text contains key when the two are compared letter by letter without
\* regard to case.
ContainsIgnoringCase(text, key) ==
    \E i \in 0..(Len(text) - Len(key)) :
        \A j \in 1..Len(key) : SameLetter(text[i + j], key[j])

\* The license text names an open license.
NamesOpenLicense(text) ==
    \E key \in {K_cc_by, K_creative_commons, K_public_domain, K_open_access,
                K_cc0} : ContainsIgnoringCase(text, key)

\* The records processed so far that resolved to format m and whose
\* license does (open = TRUE) or does not (open = FALSE) name an open
\* license.
ProcessedAs(m, open) ==
    {i \in 1..idx : /\ detailed_list[i].Format = m
                    /\ NamesOpenLicense(detailed_list[i].License.s) = open}

\* C11: in analyze_and_export a record is counted Open exactly when its
\* resolved license contains, in any letter case, one of cc-by, creative
\* commons, public domain, open-access, cc0, and Restricted otherwise: in
\* every format's row Open is the number of processed records of that
\* format whose license names an open license and Restricted the number of
\* the others, so that the format has no part in the classification.
C11_OpenIffKeyword ==
    (~IsAnalyzeData(version) /\ apc \in {"loop", "returned"}) =>
        \A m \in DOMAIN stats :
            /\ stats[m].Open = Cardinality(ProcessedAs(m, TRUE))
            /\ stats[m].Restricted = Cardinality(ProcessedAs(m, FALSE))

\* C11 witness: two records with the same mixed-case open license and
\* different formats were both counted Open, and a third record with a
\* license naming no keyword was counted Restricted.
C11_Witness ==
    /\ ~IsAnalyzeData(version)
    /\ apc = "returned"
    /\ \E i, j, k \in 1..idx :
        /\ detailed_list[i].License = detailed_list[j].License
        /\ detailed_list[i].License.s # ToLower(detailed_list[i].License.s)
        /\ detailed_list[i].Format # detailed_list[j].Format
        /\ stats[detailed_list[i].Format].Open = 1
        /\ stats[detailed_list[j].Format].Open = 1
        /\ stats[detailed_list[k].Format].Restricted = 1

\* ---------------------------------------------------------------- C12
\* The text is the decimal notation of a number.
Numeric(text) ==
    /\ text # <<>>
    /\ \A i \in 1..Len(text) : IsDecimal(text[i])

\* The harvest function has been called in this run of the script.
HarvestCalled == pc # "idle"

\* C12: in the entry points that ask for the years (v04, v05, v06), the
\* harvest is called only when the start year typed is a number of at
\* least 2008 and the end year typed is a number not below the start year.
C12_CliGate ==
    (version \in {"v04", "v05", "v06"} /\ HarvestCalled) =>
        /\ Numeric(user_start)
        /\ int(user_start) >= 2008
        /\ Numeric(user_end)
        /\ int(user_end) >= int(user_start)

\* ---------------------------------------------------------------- C13
\* The analysis function has been called in this run of the script.
AnalysisStarted == apc # "idle"

\* The probe of this run was answered with a total of zero.
ProbedZero == probes = 1 /\ pc # "probe" /\ ~failed /\ total_found = 0

\* The analysis starts only once the harvest of the run has written the
\* cache and returned True, and never after it returned False.
AnalysisAfterSuccess ==
    /\ AnalysisStarted =>
           (result = "True" /\ writes = 1 /\ cache = CacheOf(all_docs))
    /\ result = "False" => (~AnalysisStarted /\ ~exports.written)

\* C13: in a run of the script (v01, v05) the analysis starts only after
\* the harvest of the same run wrote the cache and returned success; after
\* a harvest that returned failure, and after a probe that reported zero
\* matches, the analysis and the export do not happen.
C13_AnalysisGating ==
    version \in {"v01", "v05"} =>
        /\ AnalysisAfterSuccess
        /\ ProbedZero => (~AnalysisStarted /\ ~exports.written)

\* ---------------------------------------------------------------- C14
RECURSIVE Accumulated(_, _)
\* The number of records the first k pages added.
Accumulated(added, k) ==
    IF k = 0 THEN 0 ELSE Accumulated(added, k - 1) + added[k]

\* At every page request the offset sent is the number of records
\* accumulated so far, and the request adds min(100, N - offset) records.
OffsetIsAccumulated ==
    \A k \in 1..Len(grew) :
        /\ requested[k] = Accumulated(grew, k - 1)
        /\ grew[k] = Min(rows_per_page, total_found - requested[k])

\* C14: in a run of the page loop (v05, v06) in which no request fails,
\* each request is sent with start = the number of records accumulated so
\* far, each iteration adds exactly min(100, N - start) records, and the
\* loop is left with at least N records accumulated.
C14_OffsetInvariant ==
    (version \in {"v05", "v06"} /\ ~failed) =>
        /\ OffsetIsAccumulated
        /\ LoopLeft => Len(all_docs) >= total_found

\* The same, for the runs in which every page is the exact slice asked for.
C14_WhenPagesExact == (~failed /\ exact) => C14_OffsetInvariant

\* ---------------------------------------------------------------- C15
RECURSIVE Concatenation(_)
\* The pages one after the other, in the order they were requested.
Concatenation(ps) ==
    IF ps = <<>> THEN <<>>
    ELSE Concatenation(SubSeq(ps, 1, Len(ps) - 1)) \o ps[Len(ps)]

\* The requests sent are the probe first and then the page requests.
ProbeFirst ==
    /\ Len(sent) = probes + Len(requested)
    /\ Len(requested) > 0 => probes = 1
    /\ sent # <<>> => sent[1].rows = 0
    /\ \A k \in 1..Len(requested) :
        /\ sent[k + 1].rows = rows_per_page
        /\ sent[k + 1].start = requested[k]

\* Every page requested so far has been appended, but for a last request
\* that raised and ended the run.
OnePageAtATime ==
    /\ all_docs = Concatenation(pages)
    /\ \/ Len(pages) = Len(requested)
       \/ /\ Len(pages) + 1 = Len(requested)
          /\ pc = "done"
          /\ result = "False"

\* C15: in one run of the harvest the probe precedes every page request;
\* a page request is issued only when the records of all earlier pages
\* are in the accumulator; the cache is written at most once, only after
\* the last page was appended (the loop condition is false and the run is
\* over), and its docs list is the concatenation of the pages in request
\* order.
C15_StrictSequencing ==
    /\ ProbeFirst
    /\ OnePageAtATime
    /\ writes <= 1
    /\ writes = 1 =>
        /\ pc = "done"
        /\ Len(pages) = Len(requested)
        /\ ~LoopCond(start, total_found)
        /\ cache.docs = Concatenation(pages)

\* C15 witness: three non-empty pages were appended and written, in order.
C15_Witness ==
    /\ writes = 1
    /\ Len(pages) = CeilDiv(MaxTotal, rows_per_page)
    /\ \A k \in 1..Len(pages) : pages[k] # <<>>
    /\ cache.docs = pages[1] \o pages[2] \o pages[3]
    /\ cache.docs[1] < cache.docs[Len(cache.docs)]

\* ---------------------------------------------------------------- C16
\* The probe is issued at most once and no page offset is requested twice.
NoRepeatedRequest ==
    /\ probes <= 1
    /\ \A i, j \in 1..Len(requested) : i # j => requested[i] # requested[j]

\* C16: within one run of the harvest (v01, v05) the probe is issued at
\* most once and each page offset is requested at most once, and once a
\* request has failed the run is over with the failure outcome, so that no
\* request follows a failed one.
C16_NoRetries ==
    version \in {"v01", "v05"} =>
        /\ NoRepeatedRequest
        /\ failed => (pc = "done" /\ result = "False")

\* ---------------------------------------------------------------- C17
\* The field holds a string, or a list that starts with one.
Resolvable(x) ==
    \/ x.t = "str"
    \/ x.t = "list" /\ x.items # <<>> /\ x.items[1].t = "str"

\* C17: whatever the shapes of the cached records' fields (empty list,
\* nested list, mapping, number, null), the analysis function (v05's
\* analyze_data, v06's analyze_and_export) raises nothing when the cache
\* file exists, and returns after the last record with every license
\* that has no resolvable value replaced by the default license.
C17_MalformedNeverAborts ==
    (version \in {"v05", "v06"} /\ cache.exists) =>
        /\ apc # "raised"
        /\ apc = "returned" =>
            /\ idx = Len(docs)
            /\ Len(detailed_list) = Len(docs)
            /\ \A i \in 1..Len(docs) :
                ~Resolvable(docs[i].dc_license) =>
                    detailed_list[i].License = Str(DefaultLicense(version))

\* ---------------------------------------------------------------- C18
\* The two runs were of different functions on the same cache and both
\* returned a table.
BothFunctionsReturned ==
    /\ run = 2
    /\ prev.version # version
    /\ prev.apc = "returned"
    /\ apc = "returned"

\* analyze_data's table and analyze_and_export's stats of the two runs.
DataTable == IF IsAnalyzeData(version) THEN stats ELSE prev.stats
ExportStats == IF IsAnalyzeData(version) THEN prev.stats ELSE stats

\* The licenses of a row of analyze_data's table that do (open = TRUE) or
\* do not name an open license.
LicensesOf(row, open) ==
    {l \in DOMAIN row : (l.t = "str" /\ NamesOpenLicense(l.s)) = open}

\* C18: for a cached record list on which both functions return,
\* analyze_and_export's stats have the formats of analyze_data's table,
\* and for each format Total is the sum of the table's row, Open the sum
\* of the counts of the row's licenses that name an open license, and
\* Restricted the sum of the others.
C18_SplitDerivesFromTable ==
    BothFunctionsReturned =>
        /\ DOMAIN ExportStats = DOMAIN DataTable
        /\ \A m \in DOMAIN ExportStats \cap DOMAIN DataTable :
            /\ ExportStats[m].Total = SumOver(DataTable[m], DOMAIN DataTable[m])
            /\ ExportStats[m].Open =
                   SumOver(DataTable[m], LicensesOf(DataTable[m], TRUE))
            /\ ExportStats[m].Restricted =
                   SumOver(DataTable[m], LicensesOf(DataTable[m], FALSE))

\* The same, for the caches none of whose records has a resourcetype.
C18_WithoutResourcetype ==
    (\A i \in 1..Len(docs) : docs[i].resourcetype.t = "absent")
        => C18_SplitDerivesFromTable

\* ---------------------------------------------------------------- C19
\* The two runs were of the same function, the second on the records of
\* the first in another order.
SameFunctionReordered ==
    /\ run = 2
    /\ prev.version = version
    /\ apc \in {"returned", "raised"}

\* C19: the analysis function (analyze_data, analyze_and_export) run on a
\* record list and on any permutation of it returns the same table: the
\* same formats, and under each format the same licenses with the same
\* counts or the same Total, Open and Restricted; it raises on the one
\* exactly when it raises on the other.
C19_OrderIndependent ==
    SameFunctionReordered =>
        /\ apc = prev.apc
        /\ apc = "returned" => stats = prev.stats

\* C19 witness: three records in a different order, two of them of one
\* format with different licenses, gave the same table twice.
C19_Witness ==
    /\ SameFunctionReordered
    /\ apc = "returned"
    /\ Len(docs) = 3
    /\ docs # prev.docs
    /\ docs[1] # docs[3]
    /\ Cardinality(DOMAIN stats) = 2
    /\ stats = prev.stats

\* ---------------------------------------------------------------- C20
\* C20: two runs of the harvest with the same years against a dataset
\* that does not change send the same requests in the same order (the
\* probe and every page with the one filter expression, the pages with
\* the same offsets), and when both write the cache the two record lists
\* are equal, element by element.
C20_PagerIdempotent ==
    (run = 2 /\ pc = "done") =>
        /\ sent = prev.sent
        /\ \A k \in 1..Len(sent) : sent[k].q = sent[1].q
        /\ (result = "True" /\ prev.result = "True") =>
               cache.docs = prev.cache.docs

\* C20 witness: both runs sent the probe and three page requests and
\* wrote the same 250 records.
C20_Witness ==
    /\ run = 2
    /\ pc = "done"
    /\ result = "True"
    /\ prev.result = "True"
    /\ Len(sent) = 1 + CeilDiv(MaxTotal, rows_per_page)
    /\ sent[2].q = QueryString(version, user_start, user_end)
    /\ Len(cache.docs) = MaxTotal
    /\ cache.docs = prev.cache.docs

====
